---- MODULE Spec2Model ----
(***************************************************************************)
(* Model of ddtrace/profiling/collector/_traceback.pyx: the two stack      *)
(* walkers traceback_to_frames and pyframe_to_frames.  Each walker is a    *)
(* loop over a singly linked chain; one loop iteration is one step.  The   *)
(* two calls are independent and are interleaved freely.                   *)
(***************************************************************************)
EXTENDS Integers, Sequences, FiniteSets, TLC

\* ---- bounds ----
MaxLen == 5
MaxNframes == 3

\* ---- the host runtime's objects ----

\* Python's None as the value of frame.f_lineno; a known line n is <<n>>.
None == <<>>

\* The null link: `tb is None` / `frame is None`.
NullLink == 0

\* frame objects with their code metadata (f_code.co_filename, f_lineno,
\* f_code.co_name); line numbers of real code are 1-based.
Nodes ==
    { [co_filename |-> "a.py", f_lineno |-> <<10>>, co_name |-> "foo"],
      [co_filename |-> "a.py", f_lineno |-> <<2>>,  co_name |-> "bar"],
      [co_filename |-> "b.py", f_lineno |-> None,   co_name |-> "baz"] }

\* chains of at most MaxLen nodes, listed in link order
Chains == UNION { [1..n -> Nodes] : n \in 0..MaxLen }

VARIABLES
    chain,        \* the nodes of the walked chain; chain[i] links to chain[i+1]
    max_nframes,  \* the cap passed to both walkers
    tb,           \* traceback_to_frames: the current traceback node
    tb_frames,    \* traceback_to_frames: frames
    tb_nframes,   \* traceback_to_frames: nframes
    tb_pc,        \* traceback_to_frames: "loop" or "done"
    tb_ret,       \* traceback_to_frames: the returned pair
    tb_visited,   \* nodes on which the traceback loop body ran, in order
    frame,        \* pyframe_to_frames: the current frame node
    fr_frames,    \* pyframe_to_frames: frames
    fr_nframes,   \* pyframe_to_frames: nframes
    fr_pc,        \* pyframe_to_frames: "loop" or "done"
    fr_ret,       \* pyframe_to_frames: the returned pair
    fr_visited    \* nodes on which the frame loop body ran, in order

tbvars == <<tb, tb_frames, tb_nframes, tb_pc, tb_ret, tb_visited>>
frvars == <<frame, fr_frames, fr_nframes, fr_pc, fr_ret, fr_visited>>
vars == <<chain, max_nframes, tbvars, frvars>>

\* the head handle of the chain passed by the caller (None for no frames)
chain_head == IF chain = <<>> THEN NullLink ELSE 1

\* tb.tb_next
tb_next(t) == IF t < Len(chain) THEN t + 1 ELSE NullLink

\* frame.f_back
f_back(f) == IF f < Len(chain) THEN f + 1 ELSE NullLink

\* ---- frame descriptor extraction ----

\* lineno = 0 if frame.f_lineno is None else frame.f_lineno
lineno(node) == IF node.f_lineno = None THEN 0 ELSE node.f_lineno[1]

Descriptor_Swapped(node) == <<node.co_name, lineno(node), node.co_filename>>

\* (code.co_filename, lineno, code.co_name)
Descriptor(node) == <<node.co_filename, lineno(node), node.co_name>>

\* ---- traceback_to_frames ----

TbKeep_Inclusive(n, m) == n <= m

\* if nframes < max_nframes
TbKeep(n, m) == n < m

TbInsert_Append(fs, d) == Append(fs, d)

\* frames.insert(0, d)
TbInsert(fs, d) == <<d>> \o fs

TbEntry_CountFromOne ==
    /\ tb = chain_head
    /\ tb_frames = <<>>
    /\ tb_nframes = 1

\* tb = traceback; frames = []; nframes = 0
TbEntry ==
    /\ tb = chain_head
    /\ tb_frames = <<>>
    /\ tb_nframes = 0

TbContinue_StopAtCap == tb # NullLink /\ tb_nframes < max_nframes

\* while tb is not None
TbContinue == tb # NullLink

TracebackIter_CountKept ==
    /\ tb_pc = "loop"
    /\ TbContinue
    /\ IF TbKeep(tb_nframes, max_nframes)
         THEN /\ tb_frames' = TbInsert(tb_frames, Descriptor(chain[tb]))
              /\ tb_nframes' = tb_nframes + 1
         ELSE UNCHANGED <<tb_frames, tb_nframes>>
    /\ tb_visited' = Append(tb_visited, tb)
    /\ tb' = tb_next(tb)
    /\ UNCHANGED <<chain, max_nframes, tb_pc, tb_ret, frvars>>

\* one iteration of the loop body of traceback_to_frames
TracebackIter ==
    /\ tb_pc = "loop"
    /\ TbContinue
    /\ tb_frames' = IF TbKeep(tb_nframes, max_nframes)
                      THEN TbInsert(tb_frames, Descriptor(chain[tb]))
                      ELSE tb_frames
    /\ tb_nframes' = tb_nframes + 1
    /\ tb_visited' = Append(tb_visited, tb)
    /\ tb' = tb_next(tb)
    /\ UNCHANGED <<chain, max_nframes, tb_pc, tb_ret, frvars>>

\* loop exit and `return frames, nframes`
TracebackReturn ==
    /\ tb_pc = "loop"
    /\ ~TbContinue
    /\ tb_pc' = "done"
    /\ tb_ret' = <<tb_frames, tb_nframes>>
    /\ UNCHANGED <<chain, max_nframes, tb, tb_frames, tb_nframes, tb_visited, frvars>>

\* ---- pyframe_to_frames ----

FrKeep_Inclusive(fs, m) == Len(fs) <= m

\* if len(frames) < max_nframes
FrKeep(fs, m) == Len(fs) < m

FrAppend_Front(fs, d) == <<d>> \o fs

\* frames.append(d)
FrAppend(fs, d) == Append(fs, d)

\* frames = []; nframes = 0 (frame is the argument)
FrEntry ==
    /\ frame = chain_head
    /\ fr_frames = <<>>
    /\ fr_nframes = 0

\* while frame is not None
FrContinue == frame # NullLink

\* one iteration of the loop body of pyframe_to_frames
FrameIter ==
    /\ fr_pc = "loop"
    /\ FrContinue
    /\ fr_nframes' = fr_nframes + 1
    /\ fr_frames' = IF FrKeep(fr_frames, max_nframes)
                      THEN FrAppend(fr_frames, Descriptor(chain[frame]))
                      ELSE fr_frames
    /\ fr_visited' = Append(fr_visited, frame)
    /\ frame' = f_back(frame)
    /\ UNCHANGED <<chain, max_nframes, fr_pc, fr_ret, tbvars>>

\* loop exit and `return frames, nframes`
FrameReturn ==
    /\ fr_pc = "loop"
    /\ ~FrContinue
    /\ fr_pc' = "done"
    /\ fr_ret' = <<fr_frames, fr_nframes>>
    /\ UNCHANGED <<chain, max_nframes, frame, fr_frames, fr_nframes, fr_visited, tbvars>>

\* ---- specification ----

\* both walkers are called on a chain of the runtime with the collector's cap
Init ==
    /\ chain \in Chains
    /\ max_nframes \in (-1)..MaxNframes
    /\ TbEntry
    /\ tb_pc = "loop"
    /\ tb_ret = <<>>
    /\ tb_visited = <<>>
    /\ FrEntry
    /\ fr_pc = "loop"
    /\ fr_ret = <<>>
    /\ fr_visited = <<>>

Next ==
    \/ TracebackIter
    \/ TracebackReturn
    \/ FrameIter
    \/ FrameReturn

Spec == Init /\ [][Next]_vars

\* a called function keeps running until it returns
LiveSpec == Spec /\ WF_vars(TracebackIter \/ TracebackReturn)
                 /\ WF_vars(FrameIter \/ FrameReturn)

\* ---- properties ----

Min(a, b) == IF a < b THEN a ELSE b

Reverse(s) == [i \in 1..Len(s) |-> s[Len(s) + 1 - i]]

\* the descriptor of the i-th node of the chain, which is the i-th visited
Visit(i) == Descriptor(chain[i])

\* the descriptors of the first k visited nodes, in visit order
FirstVisited(k) == [i \in 1..k |-> Visit(i)]

\* the descriptors of the last k visited nodes, in visit order
LastVisited(k) == [i \in 1..k |-> Visit(Len(chain) - k + i)]

TbDone == tb_pc = "done"
FrDone == fr_pc = "done"

\* C1 as stated: with 0 < max_nframes < n, traceback_to_frames returns the
\* descriptors of the last max_nframes visited nodes, in visit order.
C1_TailInVisitOrder ==
    (TbDone /\ 0 < max_nframes /\ max_nframes < Len(chain))
        => tb_ret[1] = LastVisited(max_nframes)

\* C1 amended: with 0 < max_nframes < n, traceback_to_frames returns the
\* descriptors of the first max_nframes visited nodes (the chain's head),
\* listed in reverse visit order, together with the count n.
C1_HeadInReverseOrder ==
    (TbDone /\ 0 < max_nframes /\ max_nframes < Len(chain))
        => tb_ret = <<Reverse(FirstVisited(max_nframes)), Len(chain)>>

\* a 5-node chain with max_nframes = 3 gives [3rd, 2nd, 1st visited], and
\* the 3rd visited node differs from the 5th
C1_Witness ==
    /\ TbDone
    /\ Len(chain) = 5
    /\ max_nframes = 3
    /\ tb_ret = <<(<<Visit(3), Visit(2), Visit(1)>>), 5>>
    /\ Visit(3) # Visit(5)
    /\ Visit(1) # Visit(3)

\* C2: for every chain and max_nframes >= 0, the count returned by either
\* walker is the number of nodes of the chain.
C2_TotalIsChainLength ==
    /\ (TbDone /\ max_nframes >= 0) => tb_ret[2] = Len(chain)
    /\ (FrDone /\ max_nframes >= 0) => fr_ret[2] = Len(chain)

C2_Witness ==
    /\ TbDone
    /\ FrDone
    /\ max_nframes >= 0
    /\ Len(chain) > max_nframes
    /\ tb_ret[2] = Len(chain)
    /\ fr_ret[2] = Len(chain)
    /\ Len(tb_ret[1]) < tb_ret[2]

\* C3: for every chain and max_nframes >= 0, both walkers return
\* len(frames) = min(total_frame_count, max_nframes), so never more than
\* max_nframes descriptors.
C3_LenIsMin ==
    /\ (TbDone /\ max_nframes >= 0) =>
          /\ Len(tb_ret[1]) = Min(tb_ret[2], max_nframes)
          /\ Len(tb_ret[1]) <= max_nframes
    /\ (FrDone /\ max_nframes >= 0) =>
          /\ Len(fr_ret[1]) = Min(fr_ret[2], max_nframes)
          /\ Len(fr_ret[1]) <= max_nframes

C3_Witness ==
    /\ TbDone
    /\ FrDone
    /\ max_nframes >= 1
    /\ Len(chain) > max_nframes
    /\ Len(tb_ret[1]) = max_nframes
    /\ Len(fr_ret[1]) = max_nframes

\* C4 as stated: for a non-empty traceback chain and max_nframes >= 1, the
\* node walked last (the chain's tail) is the first element of frames.
C4_LastWalkedFirst ==
    (TbDone /\ Len(chain) >= 1 /\ max_nframes >= 1)
        => tb_ret[1][1] = Visit(Len(chain))

\* C4 amended: for a non-empty traceback chain and max_nframes >= 1, the
\* first element of frames is the node materialized last, i.e. the
\* min(n, max_nframes)-th visited node, and frames is the walk order of the
\* first min(n, max_nframes) visited nodes reversed.
C4_LastMaterializedFirst ==
    (TbDone /\ Len(chain) >= 1 /\ max_nframes >= 1)
        => /\ tb_ret[1][1] = Visit(Min(Len(chain), max_nframes))
           /\ tb_ret[1] = Reverse(FirstVisited(Min(Len(chain), max_nframes)))

\* a truncated walk whose first returned frame is not the chain's tail
C4_Witness ==
    /\ TbDone
    /\ max_nframes >= 1
    /\ Len(chain) > max_nframes
    /\ tb_ret[1][1] = Visit(max_nframes)
    /\ tb_ret[1][1] # Visit(Len(chain))

\* C5: for every frame chain and max_nframes >= 0, pyframe_to_frames returns
\* the descriptors of the first max_nframes nodes in walk order (frames[1]
\* is the head) and counts the others.
C5_FrameWalkOrder ==
    (FrDone /\ max_nframes >= 0)
        => /\ \A i \in 1..Len(fr_ret[1]) : fr_ret[1][i] = Visit(i)
           /\ fr_ret = <<FirstVisited(Min(Len(chain), max_nframes)), Len(chain)>>

\* A(a.py,10,foo) -> B(a.py,2,bar) with max_nframes = 1
C5_Witness ==
    /\ FrDone
    /\ max_nframes = 1
    /\ chain = << [co_filename |-> "a.py", f_lineno |-> <<10>>, co_name |-> "foo"],
                  [co_filename |-> "a.py", f_lineno |-> <<2>>, co_name |-> "bar"] >>
    /\ fr_ret = << <<(<<"a.py", 10, "foo">>)>>, 2 >>

\* C6: for both walkers, max_nframes = 0 yields an empty frames list and a
\* count equal to the number of nodes of the chain.
C6_ZeroCap ==
    /\ (TbDone /\ max_nframes = 0) => tb_ret = << <<>>, Len(chain) >>
    /\ (FrDone /\ max_nframes = 0) => fr_ret = << <<>>, Len(chain) >>

C6_Witness ==
    /\ TbDone
    /\ FrDone
    /\ max_nframes = 0
    /\ Len(chain) >= 2
    /\ tb_ret = << <<>>, Len(chain) >>
    /\ fr_ret = << <<>>, Len(chain) >>

\* what the descriptor of a node has to be: its file and function unchanged,
\* line 0 exactly when f_lineno is None and the node's line otherwise
IsDescriptorOf(d, node) ==
    /\ d[1] = node.co_filename
    /\ d[3] = node.co_name
    /\ (d[2] = 0) <=> (node.f_lineno = None)
    /\ node.f_lineno # None => d[2] = node.f_lineno[1]

C8_EmptyChain ==
    /\ (TbDone /\ chain_head = NullLink /\ max_nframes >= 0) => tb_ret = << <<>>, 0 >>
    /\ (FrDone /\ chain_head = NullLink /\ max_nframes >= 0) => fr_ret = << <<>>, 0 >>

C8_Witness ==
    /\ TbDone
    /\ FrDone
    /\ chain = <<>>
    /\ max_nframes >= 1
    /\ tb_ret = << <<>>, 0 >>
    /\ fr_ret = << <<>>, 0 >>

\* the nodes 1..k in link order
LinkOrder(k) == [i \in 1..k |-> i]

\* C9: on every finite chain both walkers terminate; the nodes visited so
\* far are always an initial part of the chain in link order, each once; a
\* walker returns only at the null link, having visited every node, also
\* when the cap was reached before.
C9_TotalLinearScan ==
    /\ <>(TbDone /\ FrDone)
    /\ [](tb_visited = LinkOrder(Len(tb_visited)))
    /\ [](fr_visited = LinkOrder(Len(fr_visited)))
    /\ [](TbDone => (tb = NullLink /\ tb_visited = LinkOrder(Len(chain))))
    /\ [](FrDone => (frame = NullLink /\ fr_visited = LinkOrder(Len(chain))))

\* both walkers have returned from a chain longer than the cap
C9_Witness ==
    /\ TbDone
    /\ FrDone
    /\ max_nframes >= 0
    /\ Len(chain) >= max_nframes + 2
    /\ Len(tb_visited) = Len(chain)
    /\ Len(fr_visited) = Len(chain)

\* C10: on the same sequence of nodes and the same max_nframes >= 0 the two
\* walkers return the same count, the traceback walker's frames is the
\* reversal of the frame walker's frames, both hold the first
\* min(n, max_nframes) visited nodes, and len(frames) = min(nframes,
\* max_nframes) at every step of the traceback walk.
C10_WalkersAgree ==
    /\ (TbDone /\ FrDone /\ max_nframes >= 0) =>
          /\ tb_ret[2] = fr_ret[2]
          /\ tb_ret[1] = Reverse(fr_ret[1])
          /\ fr_ret[1] = FirstVisited(Min(Len(chain), max_nframes))
    /\ max_nframes >= 0 => Len(tb_frames) = Min(tb_nframes, max_nframes)

\* truncated results of at least two different frames
C10_Witness ==
    /\ TbDone
    /\ FrDone
    /\ max_nframes >= 2
    /\ Len(chain) > max_nframes
    /\ tb_ret[1] = Reverse(fr_ret[1])
    /\ tb_ret[1] # fr_ret[1]

====
